---------------------------- MODULE Spec2Model ----------------------------
(***************************************************************************)
(* kube-rbac-proxy authorization engine: path matcher, static matcher,     *)
(* attribute generators, the AND-combinator (delegateAuthorizer) and the   *)
(* composition root (SetupAuthorizer).                                     *)
(*                                                                         *)
(* Strings that the code inspects character by character (paths and path   *)
(* patterns) are sequences of one-character strings; all other strings     *)
(* are atomic.  A nil error is the empty sequence; a non-nil error is the  *)
(* sequence of its message and wrapped causes.                             *)
(***************************************************************************)
EXTENDS Naturals, Sequences, FiniteSets, TLC

(***************************************************************************)
(* Bounds of the model.                                                    *)
(***************************************************************************)
\* longest allow-list / ignore-list handed to SetupAuthorizer
MaxPaths == 1
\* longest list handed directly to the path authorizer constructors
MaxPathList == 2
\* longest static rule list handed to SetupAuthorizer
MaxRules == 1
\* longest static rule list handed directly to NewStaticAuthorizer
MaxRuleList == 2
\* most rewrite parameter values carried by one request context
MaxParams == 3
\* most values under one query parameter or one header of a request
MaxValues == 2

\* all sequences over S of length 0..n
SeqsUpTo(S, n) == UNION {[1..k -> S] : k \in 0..n}

(***************************************************************************)
(* authorizer.Decision.  DecisionDeny is the zero value of the type.       *)
(***************************************************************************)
DecisionDeny == "Deny"
DecisionAllow == "Allow"
DecisionNoOpinion == "NoOpinion"
Decisions == {DecisionDeny, DecisionAllow, DecisionNoOpinion}

\* a nil error
NoErr == << >>

\* the value an authorizer returns: (decision, reason, err)
Result(d, r, e) == [decision |-> d, reason |-> r, err |-> e]

(***************************************************************************)
(* Path strings.                                                           *)
(***************************************************************************)
\* the path "/a", the glob "/a*", the malformed glob "[*" and so on
P_root == <<"/">>
P_a == <<"/", "a">>
P_b == <<"/", "b">>
P_ab == <<"/", "a", "b">>
P_aStar == <<"/", "a", "*">>
P_star == <<"*">>
P_bad == <<"[", "*">>
P_empty == << >>
P_slashSlashA == <<"/", "/", "a">>
P_aSlashB == <<"/", "a", "/", "b">>
P_noSlashA == <<"a">>

\* strings.TrimPrefix(p, "/")
TrimPrefix(p) == IF Len(p) > 0 /\ Head(p) = "/" THEN Tail(p) ELSE p

\* strings.ContainsRune(p, '*')
ContainsStar(p) == \E i \in 1..Len(p) : p[i] = "*"

\* path.ErrBadPattern: within the alphabet used here a '[' opens a character
\* class that is never closed, which is the malformed pattern of path.Match
BadPattern(pattern) == \E i \in 1..Len(pattern) : pattern[i] = "["

\* the name without its first k characters
Drop(name, k) == SubSeq(name, k + 1, Len(name))

\* shell pattern matching of path.Match for a well-formed pattern: a '*'
\* matches any sequence of non-'/' characters, any other character itself
RECURSIVE Glob(_, _)
Glob(pattern, name) ==
    IF Len(pattern) = 0 THEN Len(name) = 0
    ELSE IF Head(pattern) = "*"
         THEN \E k \in 0..Len(name) :
                  /\ \A i \in 1..k : name[i] # "/"
                  /\ Glob(Tail(pattern), Drop(name, k))
         ELSE /\ Len(name) > 0
              /\ Head(name) = Head(pattern)
              /\ Glob(Tail(pattern), Tail(name))

\* path.Match(pattern, name): (found, err)
Match(pattern, name) ==
    IF BadPattern(pattern)
    THEN [found |-> FALSE, err |-> <<"ErrBadPattern">>]
    ELSE [found |-> Glob(pattern, name), err |-> NoErr]


(***************************************************************************)
(* authorizer.Attributes (authorizer.AttributesRecord).  user is << >> for *)
(* a nil user.Info and <<u>> otherwise.                                    *)
(***************************************************************************)
AttributesRecord(u, verb, ns, group, version, res, subres, name, isRes, pth) ==
    [user |-> u, verb |-> verb, namespace |-> ns, apiGroup |-> group,
     apiVersion |-> version, resource |-> res, subresource |-> subres,
     name |-> name, resourceRequest |-> isRes, path |-> pth]

(***************************************************************************)
(* Path matcher (pkg/authorization/path).                                  *)
(***************************************************************************)
\* the entries of inputPaths with one leading '/' removed
TrimAll(inputPaths) == [i \in 1..Len(inputPaths) |-> TrimPrefix(inputPaths[i])]

IsPattern(p) == Len(p) > 0 /\ ContainsStar(p)

\* newPathAuthorizer: the exact-match set and the pattern list, in list order
newPathAuthorizer(onMatch, onNoMatch, inputPaths) ==
    [kind |-> "path",
     matchDecision |-> onMatch,
     noMatchDecision |-> onNoMatch,
     paths |-> {TrimPrefix(inputPaths[i]) : i \in {j \in 1..Len(inputPaths) : ~IsPattern(TrimPrefix(inputPaths[j]))}},
     pathPatterns |-> SelectSeq(TrimAll(inputPaths), IsPattern)]

\* var noopAuthorizer
noopAuthorizer == [kind |-> "noop"]

\* the loop of pathAuthorizer.Authorize over a.pathPatterns, from index i
RECURSIVE matchPatterns(_, _, _)
matchPatterns(a, pth, i) ==
    IF i > Len(a.pathPatterns) THEN Result(a.noMatchDecision, << >>, NoErr)
    ELSE LET m == Match(a.pathPatterns[i], pth)
         IN  IF m.err # NoErr THEN Result(DecisionNoOpinion, <<"Error">>, m.err)
             ELSE IF m.found THEN Result(a.matchDecision, << >>, NoErr)
             ELSE matchPatterns(a, pth, i + 1)

\* a path authorizer that only looks up the exact-match set
pathAuthorizer_Authorize_exactOnly(a, attr) ==
    LET pth == TrimPrefix(attr.path)
    IN  IF pth \in a.paths THEN Result(a.matchDecision, << >>, NoErr)
        ELSE Result(a.noMatchDecision, << >>, NoErr)

\* pathAuthorizer.Authorize
pathAuthorizer_Authorize(a, attr) ==
    LET pth == TrimPrefix(attr.path)
    IN  IF pth \in a.paths THEN Result(a.matchDecision, << >>, NoErr)
        ELSE matchPatterns(a, pth, 1)

\* an allow-list whose two decisions are exchanged
NewAllowPathAuthorizer_swapped(allowPaths) ==
    IF Len(allowPaths) = 0 THEN noopAuthorizer
    ELSE newPathAuthorizer(DecisionDeny, DecisionNoOpinion, allowPaths)

NewAllowPathAuthorizer(allowPaths) ==
    IF Len(allowPaths) = 0 THEN noopAuthorizer
    ELSE newPathAuthorizer(DecisionNoOpinion, DecisionDeny, allowPaths)

\* an ignore-list built with the no-match decision of the allow-list
NewAlwaysAllowPathAuthorizer_denying(alwaysAllowPaths) ==
    newPathAuthorizer(DecisionAllow, DecisionDeny, alwaysAllowPaths)

NewAlwaysAllowPathAuthorizer(alwaysAllowPaths) ==
    newPathAuthorizer(DecisionAllow, DecisionNoOpinion, alwaysAllowPaths)

(***************************************************************************)
(* Static matcher (pkg/authz/auth.go, package static).                     *)
(***************************************************************************)
\* StaticAuthorizationConfig
StaticRule(uname, groups, verb, ns, group, res, subres, name, isRes, pth) ==
    [user |-> [name |-> uname, groups |-> groups], verb |-> verb,
     namespace |-> ns, apiGroup |-> group, resource |-> res,
     subresource |-> subres, name |-> name, resourceRequest |-> isRes,
     path |-> pth]

\* the closure isAllowed of Matches (paths are sequences, hence "" is << >>)
isAllowed(staticConf, requestVal, empty) ==
    IF staticConf = empty THEN TRUE ELSE staticConf = requestVal

\* a user name that is qualified by the first group of the caller
userName_withGroup(a) ==
    IF a.user = << >> THEN ""
    ELSE IF a.user[1].groups = << >> THEN a.user[1].name
    ELSE a.user[1].groups[1] \o "/" \o a.user[1].name

\* the local userName of Matches: "" for a nil user
userName(a) == IF a.user # << >> THEN a.user[1].name ELSE ""

\* a match that leaves out the comparison of the resourceRequest flags
Matches_withoutResourceRequest(saConfig, a) ==
    /\ isAllowed(saConfig.user.name, userName(a), "")
    /\ isAllowed(saConfig.verb, a.verb, "")
    /\ isAllowed(saConfig.namespace, a.namespace, "")
    /\ isAllowed(saConfig.apiGroup, a.apiGroup, "")
    /\ isAllowed(saConfig.resource, a.resource, "")
    /\ isAllowed(saConfig.subresource, a.subresource, "")
    /\ isAllowed(saConfig.name, a.name, "")
    /\ isAllowed(saConfig.path, a.path, << >>)

\* StaticAuthorizationConfig.Matches
Matches(saConfig, a) ==
    /\ isAllowed(saConfig.user.name, userName(a), "")
    /\ isAllowed(saConfig.verb, a.verb, "")
    /\ isAllowed(saConfig.namespace, a.namespace, "")
    /\ isAllowed(saConfig.apiGroup, a.apiGroup, "")
    /\ isAllowed(saConfig.resource, a.resource, "")
    /\ isAllowed(saConfig.subresource, a.subresource, "")
    /\ isAllowed(saConfig.name, a.name, "")
    /\ isAllowed(saConfig.path, a.path, << >>)
    /\ saConfig.resourceRequest = a.resourceRequest

\* a static matcher that never finds a rule
staticAuthorizer_Authorize_noOpinion(sa, a) ==
    Result(DecisionNoOpinion, << >>, NoErr)

\* staticAuthorizer.Authorize
staticAuthorizer_Authorize(sa, a) ==
    IF \E i \in 1..Len(sa.config) : Matches(sa.config[i], a)
    THEN Result(DecisionAllow, <<"found corresponding static auth config">>, NoErr)
    ELSE Result(DecisionNoOpinion, << >>, NoErr)

\* a nil authorizer.Authorizer
NilAuthorizer == [kind |-> "nil"]

\* a check that only looks for a missing path
ruleInvalid_missingPathOnly(c) == ~c.resourceRequest /\ c.path = << >>

\* the check NewStaticAuthorizer makes of one rule
ruleInvalid(c) == c.resourceRequest # (c.path = << >>)

\* NewStaticAuthorizer: (authorizer, err)
NewStaticAuthorizer(config) ==
    IF \E i \in 1..Len(config) : ruleInvalid(config[i])
    THEN [ok |-> FALSE, authorizer |-> NilAuthorizer,
          err |-> <<"invalid configuration: resource requests must not include a path">>]
    ELSE [ok |-> TRUE, authorizer |-> [kind |-> "static", config |-> config],
          err |-> NoErr]

(***************************************************************************)
(* Attribute generators (package rewrite).  A template string of           *)
(* ResourceAttributes is the sequence of its parts: literal text, the      *)
(* action "{{.Value}}", the action "{{.Nope}}" (parses, fails to execute:  *)
(* the data has no such field) and "{{" (an unclosed action: fails to      *)
(* parse).                                                                 *)
(***************************************************************************)
ResourceAttributes(ns, group, version, res, subres, name) ==
    [namespace |-> ns, apiGroup |-> group, apiVersion |-> version,
     resource |-> res, subresource |-> subres, name |-> name]

\* template.Parse fails
parseFails(templateString) ==
    \E i \in 1..Len(templateString) : templateString[i] = "{{"

\* tmpl.Execute fails
executeFails(templateString) ==
    \E i \in 1..Len(templateString) : templateString[i] = "{{.Nope}}"

\* the text tmpl.Execute writes for a template that parses and executes
RECURSIVE render(_, _)
render(templateString, value) ==
    IF Len(templateString) = 0 THEN ""
    ELSE (IF Head(templateString) = "{{.Value}}" THEN value
          ELSE Head(templateString)) \o render(Tail(templateString), value)

\* the Go string a template string stands for
RECURSIVE rawText(_)
rawText(templateString) ==
    IF Len(templateString) = 0 THEN ""
    ELSE Head(templateString) \o rawText(Tail(templateString))

\* templateWithValue of package rewrite: the error of Parse is dropped and
\* Execute runs on the nil *Template that Parse returned, which panics
templateWithValue(templateString, value) ==
    IF parseFails(templateString) THEN [panic |-> TRUE, out |-> ""]
    ELSE IF executeFails(templateString) THEN [panic |-> FALSE, out |-> ""]
    ELSE [panic |-> FALSE, out |-> render(templateString, value)]

\* a generator's return: the list, or a panic that unwinds the request
Generated(attrs) == [panic |-> FALSE, attrs |-> attrs]
GeneratePanics == [panic |-> TRUE, attrs |-> << >>]

\* a default generator that marks its record as a resource request
DefaultGenerate_asResource(attr) ==
    Generated(<<AttributesRecord(attr.user, attr.verb, "", "", "", "", "", "",
                                 TRUE, attr.path)>>)

\* DefaultAttributesGenerator.Generate
DefaultGenerate(attr) ==
    Generated(<<AttributesRecord(attr.user, attr.verb, "", "", "", "", "", "",
                                 FALSE, attr.path)>>)

\* a bound generator that executes the fields as templates of an empty value
BoundGenerate_rendered(attributes, attr) ==
    Generated(<<AttributesRecord(attr.user, attr.verb,
                                 templateWithValue(attributes.namespace, "").out,
                                 templateWithValue(attributes.apiGroup, "").out,
                                 templateWithValue(attributes.apiVersion, "").out,
                                 templateWithValue(attributes.resource, "").out,
                                 templateWithValue(attributes.subresource, "").out,
                                 templateWithValue(attributes.name, "").out,
                                 TRUE, << >>)>>)

\* BoundAttributesGenerator.Generate: the fields are copied, not rendered
BoundGenerate(attributes, attr) ==
    Generated(<<AttributesRecord(attr.user, attr.verb,
                                 rawText(attributes.namespace),
                                 rawText(attributes.apiGroup),
                                 rawText(attributes.apiVersion),
                                 rawText(attributes.resource),
                                 rawText(attributes.subresource),
                                 rawText(attributes.name),
                                 TRUE, << >>)>>)

\* a rewritten record that keeps the path of the request
rewrittenRecord_withPath(attributes, attr, param) ==
    AttributesRecord(attr.user, attr.verb,
                     templateWithValue(attributes.namespace, param).out,
                     templateWithValue(attributes.apiGroup, param).out,
                     templateWithValue(attributes.apiVersion, param).out,
                     templateWithValue(attributes.resource, param).out,
                     templateWithValue(attributes.subresource, param).out,
                     templateWithValue(attributes.name, param).out,
                     TRUE, attr.path)

\* the record RewritingAttributesGenerator.Generate appends for one param
rewrittenRecord(attributes, attr, param) ==
    AttributesRecord(attr.user, attr.verb,
                     templateWithValue(attributes.namespace, param).out,
                     templateWithValue(attributes.apiGroup, param).out,
                     templateWithValue(attributes.apiVersion, param).out,
                     templateWithValue(attributes.resource, param).out,
                     templateWithValue(attributes.subresource, param).out,
                     templateWithValue(attributes.name, param).out,
                     TRUE, << >>)

\* some field of the template makes templateWithValue panic
templatePanics(attributes) ==
    \/ parseFails(attributes.namespace) \/ parseFails(attributes.apiGroup)
    \/ parseFails(attributes.apiVersion) \/ parseFails(attributes.resource)
    \/ parseFails(attributes.subresource) \/ parseFails(attributes.name)

\* a rewriting generator that renders every record with the first parameter
RewritingGenerate_firstOnly(attributes, attr, params) ==
    IF Len(params) = 0 THEN Generated(<< >>)
    ELSE IF templatePanics(attributes) THEN GeneratePanics
    ELSE Generated([i \in 1..Len(params) |->
                        rewrittenRecord(attributes, attr, params[1])])

\* RewritingAttributesGenerator.Generate; params is GetKubeRBACProxyParams(ctx)
RewritingGenerate(attributes, attr, params) ==
    IF Len(params) = 0 THEN Generated(<< >>)
    ELSE IF templatePanics(attributes) THEN GeneratePanics
    ELSE Generated([i \in 1..Len(params) |->
                        rewrittenRecord(attributes, attr, params[i])])

\* AttributesGenerator.Generate, by the concrete type of the generator
Generate(attrGen, ctx, attr) ==
    CASE attrGen.kind = "default" -> DefaultGenerate(attr)
      [] attrGen.kind = "bound" -> BoundGenerate(attrGen.attributes, attr)
      [] attrGen.kind = "rewriting" ->
             RewritingGenerate(attrGen.attributes, attr, ctx.params)

(***************************************************************************)
(* Rewrite parameters (rewrite/middleware.go).  A pointer of the           *)
(* configuration is << >> when nil and <<v>> otherwise.  The query and the *)
(* header of a request are maps from a key to the list of its values.      *)
(***************************************************************************)
\* SubjectAccessReviewRewrites
SubjectAccessReviewRewrites(byQueryParameter, byHTTPHeader) ==
    [byQueryParameter |-> byQueryParameter, byHTTPHeader |-> byHTTPHeader]

\* QueryParameterRewriteConfig and HTTPHeaderRewriteConfig
RewriteName(name) == <<[name |-> name]>>

\* RewriteAttributesConfig
RewriteAttributesConfig(rewrites, resourceAttributes) ==
    [rewrites |-> rewrites, resourceAttributes |-> resourceAttributes]

\* textproto.CanonicalMIMEHeaderKey, for the header names used here: the first
\* letter and every letter after a hyphen in upper case
CanonicalMIMEHeaderKey(name) ==
    CASE name = "x-namespace" -> "X-Namespace"
      [] name = "user" -> "User"
      [] name = "groups" -> "Groups"
      [] OTHER -> name

\* m[key] of a Go map of string lists: nothing to append for a missing key
valuesAt(m, key) == IF key \in DOMAIN m THEN m[key] ELSE << >>

\* the values the first if-statement of requestToParams appends
queryParams(rewrites, req) ==
    IF rewrites.byQueryParameter # << >> /\ rewrites.byQueryParameter[1].name # ""
    THEN valuesAt(req.query, rewrites.byQueryParameter[1].name)
    ELSE << >>

\* the values the second if-statement of requestToParams appends
headerParams(rewrites, req) ==
    IF rewrites.byHTTPHeader # << >> /\ rewrites.byHTTPHeader[1].name # ""
    THEN valuesAt(req.header, CanonicalMIMEHeaderKey(rewrites.byHTTPHeader[1].name))
    ELSE << >>

\* an extractor that stops after the query parameter
requestToParams_queryOnly(config, req) ==
    IF config = << >> \/ config[1].rewrites = << >> THEN << >>
    ELSE queryParams(config[1].rewrites[1], req)

\* requestToParams
requestToParams(config, req) ==
    IF config = << >> \/ config[1].rewrites = << >> THEN << >>
    ELSE queryParams(config[1].rewrites[1], req)
             \o headerParams(config[1].rewrites[1], req)

(***************************************************************************)
(* union.New (k8s.io/apiserver/pkg/authorization/union): the handlers are  *)
(* asked in order; the first Allow or Deny is returned with the reason and *)
(* the error of the handler that gave it; a NoOpinion moves on to the next *)
(* handler; if no handler decides, the result is NoOpinion with the        *)
(* reasons and errors met on the way.  resp is what the                    *)
(* SubjectAccessReview delegate answers if it is asked.                    *)
(***************************************************************************)
\* Authorize of one handler of the union
handlerAuthorize(h, attr, resp) ==
    CASE h.kind = "path" -> pathAuthorizer_Authorize(h, attr)
      [] h.kind = "noop" -> Result(DecisionNoOpinion, << >>, NoErr)
      [] h.kind = "static" -> staticAuthorizer_Authorize(h, attr)
      [] h.kind = "delegate" -> resp

\* the decision that ends the loop of the union
unionStops(r) == r.decision \in {DecisionAllow, DecisionDeny}

RECURSIVE unionLoop(_, _, _, _, _, _, _)
unionLoop(handlers, i, attr, resp, errlist, reasonlist, invoked) ==
    IF i > Len(handlers)
    THEN [decision |-> DecisionNoOpinion, reason |-> reasonlist,
          err |-> errlist, invoked |-> invoked]
    ELSE LET r == handlerAuthorize(handlers[i], attr, resp)
             errs == errlist \o r.err
             reasons == reasonlist \o r.reason
             asked == Append(invoked, [kind |-> handlers[i].kind,
                                       decision |-> r.decision, err |-> r.err])
         IN  IF unionStops(r)
             THEN [decision |-> r.decision, reason |-> r.reason, err |-> r.err,
                   invoked |-> asked]
             ELSE unionLoop(handlers, i + 1, attr, resp, errs, reasons, asked)

\* unionAuthzHandler.Authorize; invoked lists the handlers that were asked,
\* each with what it returned
unionAuthorize(handlers, attr, resp) ==
    unionLoop(handlers, 1, attr, resp, NoErr, << >>, << >>)

(***************************************************************************)
(* Composition root: SetupAuthorizer.  An optional configuration value is  *)
(* << >> when nil and <<v>> otherwise.                                     *)
(***************************************************************************)
AuthzConfig(static, resourceAttributes, rewrites) ==
    [static |-> static, resourceAttributes |-> resourceAttributes,
     rewrites |-> rewrites]

\* the switch over allowPaths and ignorePaths: the path strategy, if any
pathStrategies(allowPaths, ignorePaths) ==
    IF Len(allowPaths) > 0 THEN <<NewAllowPathAuthorizer(allowPaths)>>
    ELSE IF Len(ignorePaths) > 0 THEN <<NewAlwaysAllowPathAuthorizer(ignorePaths)>>
    ELSE << >>

\* a switch that looks into the rewrites for a named source
selectGenerator_bySource(config) ==
    IF config.resourceAttributes = << >> THEN [kind |-> "default"]
    ELSE IF config.rewrites # << >>
            /\ \/ (config.rewrites[1].byQueryParameter # << >>
                    /\ config.rewrites[1].byQueryParameter[1].name # "")
               \/ (config.rewrites[1].byHTTPHeader # << >>
                    /\ config.rewrites[1].byHTTPHeader[1].name # "")
    THEN [kind |-> "rewriting", attributes |-> config.resourceAttributes[1]]
    ELSE [kind |-> "bound", attributes |-> config.resourceAttributes[1]]

\* the switch that picks the attribute generator
selectGenerator(config) ==
    IF config.resourceAttributes # << >> /\ config.rewrites = << >>
    THEN [kind |-> "bound", attributes |-> config.resourceAttributes[1]]
    ELSE IF config.resourceAttributes # << >> /\ config.rewrites # << >>
    THEN [kind |-> "rewriting", attributes |-> config.resourceAttributes[1]]
    ELSE [kind |-> "default"]

\* a union that asks the delegate before the local strategies
unionOrder_delegateFirst(pathAuthz, staticAuthz) ==
    <<[kind |-> "delegate"]>> \o pathAuthz \o staticAuthz

\* the order in which the union is given its handlers
unionOrder(pathAuthz, staticAuthz) ==
    pathAuthz \o staticAuthz \o <<[kind |-> "delegate"]>>

\* a switch without its first case: the allow-list silently wins
pathsConflict_never(allowPaths, ignorePaths) == FALSE

\* the first case of the switch: both lists are given
pathsConflict(allowPaths, ignorePaths) ==
    Len(allowPaths) > 0 /\ Len(ignorePaths) > 0

\* SetupAuthorizer: (authorizer, err)
SetupAuthorizer(config, allowPaths, ignorePaths) ==
    IF pathsConflict(allowPaths, ignorePaths)
    THEN [ok |-> FALSE, authorizer |-> NilAuthorizer,
          err |-> <<"allow and ignore paths cannot be used together">>]
    ELSE LET static == IF config.static # << >>
                       THEN NewStaticAuthorizer(config.static[1])
                       ELSE [ok |-> TRUE, authorizer |-> NilAuthorizer, err |-> NoErr]
         IN  IF ~static.ok
             THEN [ok |-> FALSE, authorizer |-> NilAuthorizer,
                   err |-> <<"failed to create static authorizer">> \o static.err]
             ELSE [ok |-> TRUE,
                   authorizer |->
                     [kind |-> "delegateAuthorizer",
                      delegate |-> unionOrder(pathStrategies(allowPaths, ignorePaths),
                                              IF config.static # << >>
                                              THEN <<static.authorizer>> ELSE << >>),
                      attrGen |-> selectGenerator(config)],
                   err |-> NoErr]

(***************************************************************************)
(* The AND-combinator: delegateAuthorizer.Authorize, one step per call of  *)
(* the wrapped authorizer.                                                 *)
(***************************************************************************)
\* the coordinates both format strings print: attr.GetName() is the resource
\* name of the attribute set, printed after "user="
formatAttr(prefix, attr) ==
    <<prefix, "user=", attr.name, "verb=", attr.verb, "resource=", attr.resource,
      "subresource=", attr.subresource>>

\* the return of the branch err != nil
authorizationError(attr, err) ==
    Result(DecisionDeny, <<"AuthorizationError">>,
           formatAttr("authorization error", attr) \o err)

\* the return of the branch authorized != DecisionAllow
forbidden(attr, reason) ==
    Result(DecisionDeny, formatAttr("Forbidden", attr) \o reason, NoErr)

\* a loop that stops at errors only and keeps going after a denial
loopStops_onErrorOnly(r) == r.err # NoErr

\* the two early returns of the loop body
loopStops(r) == r.err # NoErr \/ r.decision # DecisionAllow

\* a loop body that reports every stop as a refusal
stopResult_plainDeny(attr, r) == forbidden(attr, r.reason)

\* what the loop body returns when it stops at attr
stopResult(attr, r) ==
    IF r.err # NoErr THEN authorizationError(attr, r.err)
    ELSE forbidden(attr, r.reason)

\* a return after the loop that takes "no set was refused" for "allowed"
afterLoop_vacuous(authorized) == Result(DecisionAllow, << >>, NoErr)

\* the return after the loop, empty list included
afterLoop(authorized) ==
    IF authorized = DecisionAllow THEN Result(authorized, << >>, NoErr)
    ELSE Result(DecisionDeny, <<"No attribute combination matched">>, NoErr)

(***************************************************************************)
(* Inputs.                                                                 *)
(***************************************************************************)
User(name, groups) == <<[name |-> name, groups |-> groups]>>
Users == {User("alice", <<"dev">>), User("bob", << >>)}

\* request paths of the composed authorizer
RequestPaths == {P_a, P_b}

\* allow-lists and ignore-lists handed to SetupAuthorizer
SetupPathEntries == {P_a, P_bad, P_root, P_star}
SetupPathLists == SeqsUpTo(SetupPathEntries, MaxPaths)

\* static rules: a raw-path rule, a resource rule, a rule that breaks the
\* invariant resourceRequest == (path == "")
R_path == StaticRule("", << >>, "", "", "", "", "", "", FALSE, P_b)
R_resource == StaticRule("", << >>, "", "", "", "prometheusrules", "", "", TRUE, << >>)
R_invalid == StaticRule("", << >>, "", "", "", "pods", "", "", TRUE, P_a)
SetupRules == {R_path, R_resource, R_invalid}
SetupStatic == {<< >>} \cup {<<l>> : l \in SeqsUpTo(SetupRules, MaxRules)}

\* ResourceAttributes: a fixed target, a template, a template that does not parse
RA_fixed == ResourceAttributes(<<"team-a">>, <<"monitoring.coreos.com">>, << >>, <<"prometheusrules">>, << >>, << >>)
RA_template == ResourceAttributes(<<"{{.Value}}">>, << >>, << >>, <<"pods">>, << >>, << >>)
RA_unparsable == ResourceAttributes(<<"{{">>, << >>, << >>, <<"pods">>, << >>, << >>)
SetupResourceAttributes == {<< >>, <<RA_fixed>>, <<RA_template>>, <<RA_unparsable>>}

\* SubjectAccessReviewRewrites: nil, or a query parameter source
SetupRewrites ==
    {<< >>, <<SubjectAccessReviewRewrites(RewriteName("namespace"), << >>)>>}

SetupConfigs ==
    {AuthzConfig(st, ra, rw) : st \in SetupStatic, ra \in SetupResourceAttributes,
                               rw \in SetupRewrites}

\* rewrite parameter values
ParamValues == {"ns1", "ns2"}

\* what the SubjectAccessReview delegate may answer
DelegateResponses ==
    {Result(d, IF d = DecisionAllow THEN << >> ELSE <<"no RBAC policy matched">>, e) :
        d \in Decisions, e \in {NoErr, <<"backend failure">>}}

(***************************************************************************)
(* State.                                                                  *)
(***************************************************************************)
VARIABLES
    pc,         \* where the program is
    setup,      \* the arguments SetupAuthorizer was called with
    authz,      \* what SetupAuthorizer returned: (authorizer, err)
    req,        \* the request being authorized: context and attributes
    attrs,      \* delegateAuthorizer.Authorize: the generated list
    idx,        \* ... the index of the next element of the range loop
    authorized, \* ... the named return value authorized
    calls,      \* the calls of the wrapped authorizer made for this request
    result,     \* what delegateAuthorizer.Authorize returned
    unit,       \* the last application of a component on its own
    http        \* the HTTP request passing through the filter chain

vars == <<pc, setup, authz, req, attrs, idx, authorized, calls, result, unit, http>>

NoRequest == [ctx |-> [params |-> << >>], attr |-> << >>]
NoResult == Result("", << >>, NoErr)
NoUnit == [op |-> "none"]
NoHTTP == [at |-> "idle"]

requestVars == <<req, attrs, idx, authorized, calls, result>>

Init ==
    /\ pc = "start"
    /\ setup = [config |-> AuthzConfig(<< >>, << >>, << >>),
                allowPaths |-> << >>, ignorePaths |-> << >>]
    /\ authz = [ok |-> FALSE, authorizer |-> NilAuthorizer, err |-> NoErr]
    /\ req = NoRequest
    /\ attrs = << >>
    /\ idx = 0
    /\ authorized = DecisionDeny
    /\ calls = << >>
    /\ result = NoResult
    /\ unit = NoUnit
    /\ http = NoHTTP

\* startup: SetupAuthorizer is called once with the configuration
Setup ==
    /\ pc = "start"
    /\ \E config \in SetupConfigs, allowPaths \in SetupPathLists,
          ignorePaths \in SetupPathLists :
          /\ setup' = [config |-> config, allowPaths |-> allowPaths,
                       ignorePaths |-> ignorePaths]
          /\ authz' = SetupAuthorizer(config, allowPaths, ignorePaths)
          /\ pc' = IF authz'.ok THEN "ready" ELSE "setupFailed"
    /\ UNCHANGED <<requestVars, unit, http>>

\* the rewrite parameters a request context may carry for the generator
contextParams(attrGen) ==
    IF attrGen.kind = "rewriting" THEN SeqsUpTo(ParamValues, MaxParams)
    ELSE {<< >>}

\* delegateAuthorizer.Authorize up to the loop: the generator is called
Authorize ==
    /\ pc = "ready"
    /\ \E u \in Users, pth \in RequestPaths,
          params \in contextParams(authz.authorizer.attrGen) :
          LET attr == AttributesRecord(u, "get", "", "", "", "", "", "", FALSE, pth)
              ctx == [params |-> params]
              g == Generate(authz.authorizer.attrGen, ctx, attr)
          IN  /\ req' = [ctx |-> ctx, attr |-> attr]
              /\ attrs' = g.attrs
              /\ pc' = IF g.panic THEN "panicked" ELSE "loop"
    /\ idx' = 1
    /\ authorized' = DecisionDeny
    /\ calls' = << >>
    /\ result' = NoResult
    /\ UNCHANGED <<setup, authz, unit, http>>

\* one iteration of the loop: the wrapped authorizer (the union) is called
DelegateCall ==
    /\ pc = "loop"
    /\ idx <= Len(attrs)
    /\ \E resp \in DelegateResponses :
          LET attr == attrs[idx]
              r == unionAuthorize(authz.authorizer.delegate, attr, resp)
          IN  /\ calls' = Append(calls, [attr |-> attr, invoked |-> r.invoked,
                                         decision |-> r.decision, reason |-> r.reason,
                                         err |-> r.err])
              /\ authorized' = r.decision
              /\ IF loopStops(r)
                 THEN /\ result' = stopResult(attr, r)
                      /\ pc' = "returned"
                      /\ idx' = idx
                 ELSE /\ result' = result
                      /\ pc' = "loop"
                      /\ idx' = idx + 1
    /\ UNCHANGED <<setup, authz, req, attrs, unit, http>>

\* the loop has run out: the return after it
Return ==
    /\ pc = "loop"
    /\ idx > Len(attrs)
    /\ result' = afterLoop(authorized)
    /\ pc' = "returned"
    /\ UNCHANGED <<setup, authz, req, attrs, idx, authorized, calls, unit, http>>

\* the request is over (answered, or unwound by the panic); the next may come
NextRequest ==
    /\ pc \in {"returned", "panicked"}
    /\ pc' = "ready"
    /\ req' = NoRequest
    /\ attrs' = << >>
    /\ idx' = 0
    /\ authorized' = DecisionDeny
    /\ calls' = << >>
    /\ result' = NoResult
    /\ UNCHANGED <<setup, authz, unit, http>>

Next == Setup \/ Authorize \/ DelegateCall \/ Return \/ NextRequest

Spec == Init /\ [][Next]_vars

(***************************************************************************)
(* The components on their own: a constructor is called with a list and    *)
(* the authorizer it returns is asked once, as a test of the component     *)
(* does.                                                                   *)
(***************************************************************************)
\* entries of the lists: "/a", "a", the glob "/a*", the malformed glob "[*", "/"
UnitPathEntries == {P_a, P_noSlashA, P_aStar, P_bad, P_root}
UnitPathLists == SeqsUpTo(UnitPathEntries, MaxPathList)

\* request paths: "/a", "a", "/ab", "/b", "/", "", "//a", "/a/b"
UnitPaths == {P_a, P_noSlashA, P_ab, P_b, P_root, P_empty, P_slashSlashA, P_aSlashB}

\* a non-resource request for a path
pathRequest(u, verb, pth) ==
    AttributesRecord(u, verb, "", "", "", "", "", "", FALSE, pth)

\* static rules
U_aliceGetA == StaticRule("alice", << >>, "get", "", "", "", "", "", FALSE, P_a)
U_podsInNs1 == StaticRule("", << >>, "", "ns1", "", "pods", "", "", TRUE, << >>)
U_anyResource == StaticRule("", << >>, "", "", "", "", "", "", TRUE, << >>)
U_devGroupA == StaticRule("", <<"dev">>, "", "", "", "", "", "", FALSE, P_a)
U_podLogX == StaticRule("", << >>, "get", "", "", "pods", "log", "x", TRUE, << >>)
U_noPath == StaticRule("bob", << >>, "get", "", "", "", "", "", FALSE, << >>)
U_resourceWithPath == StaticRule("", << >>, "", "", "", "pods", "", "", TRUE, P_a)
UnitRules ==
    {U_aliceGetA, U_podsInNs1, U_anyResource, U_devGroupA, U_podLogX, U_noPath,
     U_resourceWithPath}
UnitRuleLists == SeqsUpTo(UnitRules, MaxRuleList)

\* attribute sets put to the static matcher
UnitAttributes ==
    {pathRequest(User("alice", <<"dev">>), "get", P_a),
     pathRequest(User("bob", << >>), "get", P_a),
     pathRequest(User("alice", <<"dev">>), "create", P_a),
     pathRequest(User("alice", << >>), "get", P_b),
     pathRequest(<< >>, "get", P_a),
     AttributesRecord(User("bob", << >>), "get", "ns1", "", "v1", "pods", "", "", TRUE, << >>),
     AttributesRecord(User("bob", << >>), "get", "ns2", "", "v1", "pods", "", "", TRUE, << >>),
     AttributesRecord(User("bob", << >>), "get", "ns2", "", "v1", "pods", "log", "x", TRUE, << >>),
     AttributesRecord(User("bob", << >>), "get", "ns1", "apps", "v1", "deployments", "", "", TRUE, << >>)}

\* NewAllowPathAuthorizer(list).Authorize for a request path
AllowPathAuthorize ==
    /\ unit = NoUnit
    /\ \E list \in UnitPathLists, pth \in UnitPaths :
          unit' = [op |-> "NewAllowPathAuthorizer", list |-> list, path |-> pth,
                   out |-> handlerAuthorize(NewAllowPathAuthorizer(list),
                                            pathRequest(User("alice", << >>), "get", pth),
                                            NoResult)]
    /\ UNCHANGED <<pc, setup, authz, requestVars, http>>

\* NewAlwaysAllowPathAuthorizer(list).Authorize for a request path
AlwaysAllowPathAuthorize ==
    /\ unit = NoUnit
    /\ \E list \in UnitPathLists, pth \in UnitPaths :
          unit' = [op |-> "NewAlwaysAllowPathAuthorizer", list |-> list, path |-> pth,
                   out |-> handlerAuthorize(NewAlwaysAllowPathAuthorizer(list),
                                            pathRequest(User("alice", << >>), "get", pth),
                                            NoResult)]
    /\ UNCHANGED <<pc, setup, authz, requestVars, http>>

\* NewStaticAuthorizer(rules), and Authorize of what it returned, if anything
StaticAuthorize ==
    /\ unit = NoUnit
    /\ \E rules \in UnitRuleLists, a \in UnitAttributes :
          LET sa == NewStaticAuthorizer(rules)
          IN  unit' = [op |-> "NewStaticAuthorizer", rules |-> rules, attr |-> a,
                       ok |-> sa.ok, authorizer |-> sa.authorizer, err |-> sa.err,
                       out |-> IF sa.ok THEN staticAuthorizer_Authorize(sa.authorizer, a)
                               ELSE NoResult]
    /\ UNCHANGED <<pc, setup, authz, requestVars, http>>

\* ResourceAttributes: a placeholder with a prefix in every field, a field
\* that names a field the data does not have, no field set at all
RA_prefixed ==
    ResourceAttributes(<<"ns-", "{{.Value}}">>, <<"g-", "{{.Value}}">>,
                       <<"v-", "{{.Value}}">>, <<"r-", "{{.Value}}">>,
                       <<"s-", "{{.Value}}">>, <<"n-", "{{.Value}}">>)
RA_noSuchField ==
    ResourceAttributes(<<"{{.Nope}}">>, << >>, << >>, <<"pods">>, << >>, << >>)
RA_none == ResourceAttributes(<< >>, << >>, << >>, << >>, << >>, << >>)
\* the placeholder alone in one field, nothing in the others
RA_valueOnly == ResourceAttributes(<<"{{.Value}}">>, << >>, << >>, << >>, << >>, << >>)
UnitResourceAttributes ==
    {RA_fixed, RA_template, RA_prefixed, RA_unparsable, RA_noSuchField, RA_none,
     RA_valueOnly}

\* rewrite parameter values: "?namespace=" carries the empty value
UnitParamValues == {"ns1", "ns2", ""}
UnitParams == SeqsUpTo(UnitParamValues, MaxParams)

\* the attributes a generator is given: the request's user, verb and path
UnitRequestAttributes ==
    {pathRequest(u, verb, pth) :
        u \in Users, verb \in {"get", "create"}, pth \in {P_a, P_root}}

\* DefaultAttributesGenerator.Generate for a request and its context
DefaultGeneratorGenerate ==
    /\ unit = NoUnit
    /\ \E attr \in UnitRequestAttributes, params \in UnitParams :
          unit' = [op |-> "DefaultAttributesGenerator.Generate",
                   attr |-> attr, params |-> params,
                   out |-> Generate([kind |-> "default"], [params |-> params], attr)]
    /\ UNCHANGED <<pc, setup, authz, requestVars, http>>

\* BoundAttributesGenerator.Generate for a request and its context
BoundGeneratorGenerate ==
    /\ unit = NoUnit
    /\ \E attributes \in UnitResourceAttributes, attr \in UnitRequestAttributes,
          params \in UnitParams :
          unit' = [op |-> "BoundAttributesGenerator.Generate",
                   attributes |-> attributes, attr |-> attr, params |-> params,
                   out |-> Generate([kind |-> "bound", attributes |-> attributes],
                                    [params |-> params], attr)]
    /\ UNCHANGED <<pc, setup, authz, requestVars, http>>

\* RewritingAttributesGenerator.Generate for a request and its context
RewritingGeneratorGenerate ==
    /\ unit = NoUnit
    /\ \E attributes \in UnitResourceAttributes, attr \in UnitRequestAttributes,
          params \in UnitParams :
          unit' = [op |-> "RewritingAttributesGenerator.Generate",
                   attributes |-> attributes, attr |-> attr, params |-> params,
                   out |-> Generate([kind |-> "rewriting", attributes |-> attributes],
                                    [params |-> params], attr)]
    /\ UNCHANGED <<pc, setup, authz, requestVars, http>>

\* rewrites: nil, no source, a query parameter, a header, both, empty names
UnitRewrites ==
    {<< >>,
     <<SubjectAccessReviewRewrites(<< >>, << >>)>>,
     <<SubjectAccessReviewRewrites(RewriteName("namespace"), << >>)>>,
     <<SubjectAccessReviewRewrites(<< >>, RewriteName("x-namespace"))>>,
     <<SubjectAccessReviewRewrites(RewriteName("namespace"), RewriteName("x-namespace"))>>,
     <<SubjectAccessReviewRewrites(RewriteName(""), RewriteName(""))>>}

\* the configuration handed to requestToParams: nil, or one of the rewrites
UnitRewriteConfigs ==
    {<< >>} \cup {<<RewriteAttributesConfig(rw, <<RA_template>>)>> : rw \in UnitRewrites}

\* value lists under one key, in the order the request carries them
UnitValueLists == SeqsUpTo(ParamValues, MaxValues) \ {<< >>}

\* req.URL.Query(): no parameter, the parameter "namespace", another one, both
UnitQueries ==
    {<< >>, "other" :> <<"x">>}
        \cup {"namespace" :> vs : vs \in UnitValueLists}
        \cup {("namespace" :> vs) @@ ("other" :> <<"x">>) : vs \in UnitValueLists}

\* req.Header, its keys in canonical form: no header, the header "X-Namespace"
UnitHeaders ==
    {<< >>} \cup {"X-Namespace" :> vs :
                     vs \in SeqsUpTo({"ns2", "ns3"}, MaxValues) \ {<< >>}}

\* requestToParams for a configuration and a request
RequestToParams ==
    /\ unit = NoUnit
    /\ \E config \in UnitRewriteConfigs, query \in UnitQueries, header \in UnitHeaders :
          unit' = [op |-> "requestToParams", config |-> config,
                   req |-> [query |-> query, header |-> header],
                   out |-> requestToParams(config, [query |-> query, header |-> header])]
    /\ UNCHANGED <<pc, setup, authz, requestVars, http>>

\* configurations handed to SetupAuthorizer on its own
UnitConfigs ==
    {AuthzConfig(<< >>, ra, rw) :
        ra \in {<< >>, <<RA_fixed>>, <<RA_template>>}, rw \in UnitRewrites}

\* SetupAuthorizer for a configuration and path lists
SetupAuthorizerCall ==
    /\ unit = NoUnit
    /\ \E config \in UnitConfigs, allowPaths \in SetupPathLists,
          ignorePaths \in SetupPathLists :
          unit' = [op |-> "SetupAuthorizer", config |-> config,
                   allowPaths |-> allowPaths, ignorePaths |-> ignorePaths,
                   out |-> SetupAuthorizer(config, allowPaths, ignorePaths)]
    /\ UNCHANGED <<pc, setup, authz, requestVars, http>>

NextUnit ==
    \/ AllowPathAuthorize
    \/ AlwaysAllowPathAuthorize
    \/ StaticAuthorize
    \/ DefaultGeneratorGenerate
    \/ BoundGeneratorGenerate
    \/ RewritingGeneratorGenerate
    \/ RequestToParams
    \/ SetupAuthorizerCall

SpecUnit == Init /\ [][NextUnit]_vars

(***************************************************************************)
(* HTTP filters (pkg/filters).  The chain of the proxy is                  *)
(* WithAuthentication -> WithAuthorization -> WithAuthHeaders -> handler.  *)
(* A request is a record of its method, path, query, header and context;   *)
(* the context holds the user (<< >> when none) and the audiences.  A      *)
(* response status of 0 means that nothing has been written yet.           *)
(***************************************************************************)
\* strings.Join
RECURSIVE Join(_, _)
Join(elems, sep) ==
    IF Len(elems) = 0 THEN ""
    ELSE IF Len(elems) = 1 THEN elems[1]
    ELSE elems[1] \o sep \o Join(Tail(elems), sep)

\* a header write that appends to the values already there (http.Header.Add)
HeaderSet_add(h, key, value) ==
    (CanonicalMIMEHeaderKey(key) :>
        (valuesAt(h, CanonicalMIMEHeaderKey(key)) \o <<value>>)) @@ h

\* http.Header.Set: the values of the canonical key are replaced by the one value
HeaderSet(h, key, value) == (CanonicalMIMEHeaderKey(key) :> <<value>>) @@ h

\* AuthnHeaderConfig
AuthnHeaderConfig(enabled, userFieldName, groupsFieldName, groupSeparator) ==
    [enabled |-> enabled, userFieldName |-> userFieldName,
     groupsFieldName |-> groupsFieldName, groupSeparator |-> groupSeparator]

\* authz.Config, without its static rules
Config(rewrites, resourceAttributes) ==
    [rewrites |-> rewrites, resourceAttributes |-> resourceAttributes]

\* the switch on r.Method of GetRequestAttributes
apiVerb(method) ==
    CASE method = "POST" -> "create"
      [] method = "GET" -> "get"
      [] method = "PUT" -> "update"
      [] method = "PATCH" -> "patch"
      [] method = "DELETE" -> "delete"
      [] OTHER -> "*"

\* Config.GetRequestAttributes; its templateWithValue drops the error of Parse
\* and executes the nil template, as the one of package rewrite does
GetRequestAttributes(c, u, r) ==
    IF c.resourceAttributes = << >>
    THEN Generated(<<AttributesRecord(u, apiVerb(r.method), "", "", "", "", "", "",
                                      FALSE, r.path)>>)
    ELSE IF c.rewrites = << >>
    THEN Generated(<<AttributesRecord(u, apiVerb(r.method),
                                      rawText(c.resourceAttributes[1].namespace),
                                      rawText(c.resourceAttributes[1].apiGroup),
                                      rawText(c.resourceAttributes[1].apiVersion),
                                      rawText(c.resourceAttributes[1].resource),
                                      rawText(c.resourceAttributes[1].subresource),
                                      rawText(c.resourceAttributes[1].name),
                                      TRUE, << >>)>>)
    ELSE LET params == queryParams(c.rewrites[1], r) \o headerParams(c.rewrites[1], r)
             ra == c.resourceAttributes[1]
         IN IF Len(params) = 0 THEN Generated(<< >>)
            ELSE IF templatePanics(ra) THEN GeneratePanics
            ELSE Generated([i \in 1..Len(params) |->
                     AttributesRecord(u, apiVerb(r.method),
                                      templateWithValue(ra.namespace, params[i]).out,
                                      templateWithValue(ra.apiGroup, params[i]).out,
                                      templateWithValue(ra.apiVersion, params[i]).out,
                                      templateWithValue(ra.resource, params[i]).out,
                                      templateWithValue(ra.subresource, params[i]).out,
                                      templateWithValue(ra.name, params[i]).out,
                                      TRUE, << >>)])

\* an authentication filter that only looks at ok
authenticationStatus_okOnly(res) == IF ~res.ok THEN 401 ELSE 0

\* WithAuthentication: the status written for what AuthenticateRequest returned
authenticationStatus(res) ==
    IF res.err # NoErr THEN 401
    ELSE IF ~res.ok THEN 401
    ELSE 0

\* an authorization filter that only rejects an explicit Deny
authorizeStatus_denyOnly(answer) ==
    IF answer.err # NoErr THEN 500
    ELSE IF answer.decision = DecisionDeny THEN 403
    ELSE 0

\* WithAuthorization: the status written for what authz.Authorize returned
authorizeStatus(answer) ==
    IF answer.err # NoErr THEN 500
    ELSE IF answer.decision # DecisionAllow THEN 403
    ELSE 0

\* the authorizers of the filter test, and one that may answer anything
approver == Result(DecisionAllow, <<"user allowed">>, NoErr)
denier == Result(DecisionDeny, <<"user not allowed">>, NoErr)
authorizerAnswers(kind) ==
    CASE kind = "approver" -> {approver}
      [] kind = "denier" -> {denier}
      [] OTHER -> DelegateResponses

\* what AuthenticateRequest may return: (res.User, ok, err)
AuthenticateResponse(u, ok, err) == [user |-> u, ok |-> ok, err |-> err]
AuthenticatedUsers == Users \cup {User("carol", <<"dev", "ops">>)}
AuthenticateResponses ==
    {AuthenticateResponse(u, TRUE, NoErr) : u \in AuthenticatedUsers}
        \cup {AuthenticateResponse(<< >>, FALSE, NoErr),
              AuthenticateResponse(<< >>, FALSE, <<"invalid bearer token">>),
              AuthenticateResponse(User("alice", <<"dev">>), TRUE, <<"token expired">>),
              AuthenticateResponse(<< >>, TRUE, NoErr)}

\* the configurations the chain is built with
RW_header == <<SubjectAccessReviewRewrites(<< >>, RewriteName("x-namespace"))>>
RW_both ==
    <<SubjectAccessReviewRewrites(RewriteName("namespace"), RewriteName("x-namespace"))>>
HTTPAuthorizationConfigs ==
    {Config(<< >>, << >>), Config(<< >>, <<RA_fixed>>), Config(RW_header, << >>),
     Config(RW_header, <<RA_template>>), Config(RW_both, <<RA_template>>),
     Config(RW_header, <<RA_unparsable>>)}
HTTPHeaderConfigs ==
    {AuthnHeaderConfig(FALSE, "user", "groups", ""),
     AuthnHeaderConfig(TRUE, "user", "groups", ""),
     AuthnHeaderConfig(TRUE, "user", "groups", "|")}
ChainConfigs ==
    [authorization : HTTPAuthorizationConfigs, header : HTTPHeaderConfigs,
     authorizer : {"approver", "denier", "delegate"},
     audiences : {<< >>, <<"kube-rbac-proxy">>}]

\* the requests a client may send; a client may supply the identity headers
HTTPHeaders ==
    {identity @@ namespace :
        identity \in {<< >>, ("User" :> <<"admin">>)
                                 @@ ("Groups" :> <<"system:masters", "x">>)},
        namespace \in {<< >>} \cup {"X-Namespace" :> vs : vs \in UnitValueLists}}
HTTPRequests ==
    [method : {"GET", "OPTIONS"}, path : {P_a},
     query : {<< >>, "namespace" :> <<"ns1">>}, header : HTTPHeaders,
     ctx : {[user |-> << >>, audiences |-> << >>]}]

\* WithAuthentication: the request arrives and the authenticator is asked
WithAuthentication ==
    /\ http.at = "idle"
    /\ \E cfg \in ChainConfigs, r \in HTTPRequests, res \in AuthenticateResponses :
          LET withAudiences ==
                  IF Len(cfg.audiences) > 0
                  THEN [r EXCEPT !.ctx.audiences = cfg.audiences] ELSE r
              failed == authenticationStatus(res) # 0
          IN http' = [at |-> IF failed THEN "done" ELSE "WithAuthorization",
                      cfg |-> cfg, received |-> r, authn |-> res,
                      r |-> IF failed THEN withAudiences
                            ELSE [withAudiences EXCEPT !.ctx.user = res.user],
                      allAttrs |-> << >>, i |-> 0, authzCalls |-> << >>,
                      status |-> authenticationStatus(res),
                      handlerCalls |-> << >>]
    /\ UNCHANGED <<pc, setup, authz, requestVars, unit>>

\* WithAuthorization up to its loop: the user is read from the context and
\* the attribute list is built
WithAuthorization ==
    /\ http.at = "WithAuthorization"
    /\ IF http.r.ctx.user = << >>
       THEN http' = [http EXCEPT !.at = "done", !.status = 401]
       ELSE LET allAttrs ==
                    GetRequestAttributes(http.cfg.authorization, http.r.ctx.user, http.r)
            IN IF allAttrs.panic THEN http' = [http EXCEPT !.at = "panicked"]
               ELSE IF Len(allAttrs.attrs) = 0
               THEN http' = [http EXCEPT !.at = "done", !.status = 400]
               ELSE http' = [http EXCEPT !.at = "authorize",
                                         !.allAttrs = allAttrs.attrs, !.i = 1]
    /\ UNCHANGED <<pc, setup, authz, requestVars, unit>>

\* one turn of the loop of WithAuthorization: authz.Authorize for one set
AuthorizeAttributes ==
    /\ http.at = "authorize"
    /\ \E answer \in authorizerAnswers(http.cfg.authorizer) :
          LET called == Append(http.authzCalls,
                               [attr |-> http.allAttrs[http.i],
                                user |-> http.r.ctx.user, answer |-> answer])
          IN IF authorizeStatus(answer) # 0
             THEN http' = [http EXCEPT !.at = "done", !.authzCalls = called,
                                       !.status = authorizeStatus(answer)]
             ELSE IF http.i = Len(http.allAttrs)
             THEN http' = [http EXCEPT !.at = "WithAuthHeaders", !.authzCalls = called]
             ELSE http' = [http EXCEPT !.authzCalls = called, !.i = http.i + 1]
    /\ UNCHANGED <<pc, setup, authz, requestVars, unit>>

\* WithAuthHeaders and the protected handler behind it
WithAuthHeaders ==
    /\ http.at = "WithAuthHeaders"
    /\ LET cfg == http.cfg.header
           u == http.r.ctx.user
           header ==
               IF cfg.enabled /\ u # << >>
               THEN HeaderSet(HeaderSet(http.r.header, cfg.userFieldName, u[1].name),
                              cfg.groupsFieldName,
                              Join(u[1].groups, cfg.groupSeparator))
               ELSE http.r.header
           served == [http.r EXCEPT !.header = header]
       IN http' = [http EXCEPT !.at = "done", !.r = served, !.status = 200,
                               !.handlerCalls = Append(@, served)]
    /\ UNCHANGED <<pc, setup, authz, requestVars, unit>>

\* the response is sent, or the panic has closed the connection
Respond ==
    /\ http.at \in {"done", "panicked"}
    /\ http' = NoHTTP
    /\ UNCHANGED <<pc, setup, authz, requestVars, unit>>

NextHTTP ==
    \/ WithAuthentication
    \/ WithAuthorization
    \/ AuthorizeAttributes
    \/ WithAuthHeaders
    \/ Respond

SpecHTTP == Init /\ [][NextHTTP]_vars

(***************************************************************************)
(* Properties of the composed authorizer.                                  *)
(***************************************************************************)
\* the wrapped authorizer allowed the i-th generated set without an error
callAllowed(i) ==
    /\ calls[i].attr = attrs[i]
    /\ calls[i].decision = DecisionAllow
    /\ calls[i].err = NoErr

\* the delegate was asked during the request
delegateAsked ==
    \E i \in 1..Len(calls) :
        \E j \in 1..Len(calls[i].invoked) : calls[i].invoked[j].kind = "delegate"

\* C1: delegateAuthorizer.Authorize returns Allow exactly when the generator
\* produced at least one attribute set and the wrapped authorizer returned
\* Allow without error for every one of them; otherwise it returns Deny; it
\* never returns NoOpinion.
C1_AllowIffAllSetsAllowed ==
    pc = "returned" =>
        /\ result.decision \in {DecisionAllow, DecisionDeny}
        /\ (result.decision = DecisionAllow) <=>
               /\ Len(attrs) >= 1
               /\ Len(calls) = Len(attrs)
               /\ \A i \in 1..Len(attrs) : callAllowed(i)

\* C1 witness: two generated sets, both allowed, and Allow returned
C1_Witness ==
    /\ pc = "returned"
    /\ Len(attrs) = 2
    /\ Len(calls) = 2
    /\ result.decision = DecisionAllow

\* C2: the wrapped authorizer is called on the generated sets in generation
\* order, each call made only after every earlier one returned Allow, and a
\* set whose result is not Allow is the last one passed to it.
C2_CallsInOrderUntilFirstNonAllow ==
    /\ Len(calls) <= Len(attrs)
    /\ \A i \in 1..Len(calls) :
           /\ calls[i].attr = attrs[i]
           /\ (i < Len(calls) => calls[i].decision = DecisionAllow)
    /\ (pc = "loop" => idx = Len(calls) + 1)
    /\ (pc = "returned" =>
           \/ Len(calls) = Len(attrs)
           \/ calls[Len(calls)].decision # DecisionAllow
           \/ calls[Len(calls)].err # NoErr)

\* C2 witness: sets [A, B, C], A and B allowed, C denied, calls A, B, C
C2_Witness ==
    /\ pc = "returned"
    /\ Len(attrs) = 3
    /\ Len(calls) = 3
    /\ callAllowed(1) /\ callAllowed(2)
    /\ calls[3].attr = attrs[3]
    /\ calls[3].decision = DecisionDeny
    /\ result.decision = DecisionDeny

\* C3 (as claimed): with zero generated sets the call returns Deny, calls the
\* wrapped authorizer never, and returns a non-nil error.
C3_EmptyGenerationIsAnError ==
    (pc = "returned" /\ Len(attrs) = 0) =>
        /\ result.decision = DecisionDeny
        /\ Len(calls) = 0
        /\ result.err # NoErr

\* the kinds of handler SetupAuthorizer puts into the union, in its order
expectedHandlers ==
    (IF Len(setup.allowPaths) > 0 \/ Len(setup.ignorePaths) > 0
     THEN <<"path">> ELSE << >>)
    \o (IF setup.config.static # << >> THEN <<"static">> ELSE << >>)
    \o <<"delegate">>

\* the handlers asked in a call are the first ones of the union, in order
askedInListOrder(c) ==
    /\ Len(c.invoked) >= 1
    /\ Len(c.invoked) <= Len(expectedHandlers)
    /\ \A j \in 1..Len(c.invoked) : c.invoked[j].kind = expectedHandlers[j]
    /\ c.decision = c.invoked[Len(c.invoked)].decision
    /\ (c.decision = DecisionNoOpinion => Len(c.invoked) = Len(expectedHandlers))

onList(list, pth) ==
    \E i \in 1..Len(list) : TrimPrefix(list[i]) = TrimPrefix(pth)

\* C5 (as claimed): with an ignore-list configured, a request whose path is
\* on the list is decided Allow and the delegate is not asked, whatever the
\* identity, the static rules and the generator.
C5_IgnoredPathAllowedWithoutDelegate ==
    (/\ pc = "returned"
     /\ Len(setup.ignorePaths) > 0
     /\ onList(setup.ignorePaths, req.attr.path)) =>
        /\ result.decision = DecisionAllow
        /\ ~delegateAsked

\* a static rule that breaks resourceRequest == (path == "")
breaksRuleInvariant(c) == c.resourceRequest # (c.path = << >>)

\* the static rules held by the handlers of a built authorizer
heldRules ==
    UNION {{authz.authorizer.delegate[j].config[k] :
                k \in 1..Len(authz.authorizer.delegate[j].config)} :
           j \in {h \in 1..Len(authz.authorizer.delegate) :
                      authz.authorizer.delegate[h].kind = "static"}}

C10_AllowAndIgnoreListsExclusive ==
    /\ (/\ pc # "start"
        /\ Len(setup.allowPaths) > 0
        /\ Len(setup.ignorePaths) > 0) =>
           /\ pc = "setupFailed"
           /\ ~authz.ok
           /\ authz.authorizer = NilAuthorizer
           /\ authz.err # NoErr
    /\ authz.ok =>
           Cardinality({j \in 1..Len(authz.authorizer.delegate) :
                            authz.authorizer.delegate[j].kind \in {"path", "noop"}}) <= 1

\* C10 witness: setup failed on the two lists alone
C10_Witness ==
    /\ pc = "setupFailed"
    /\ Len(setup.allowPaths) > 0
    /\ Len(setup.ignorePaths) > 0
    /\ setup.config.static = << >>

(***************************************************************************)
(* Properties of the path matcher and of the static matcher.               *)
(***************************************************************************)
\* entry e of a list, stripped, against a stripped request path
entryIsLiteral(e) == ~ContainsStar(TrimPrefix(e))
entryEquals(e, pth) == TrimPrefix(e) = TrimPrefix(pth)
entryIsMalformed(e) == ~entryIsLiteral(e) /\ Match(TrimPrefix(e), << >>).err # NoErr
entryGlobMatches(e, pth) ==
    /\ ~entryIsLiteral(e)
    /\ Match(TrimPrefix(e), TrimPrefix(pth)).err = NoErr
    /\ Match(TrimPrefix(e), TrimPrefix(pth)).found

\* the path equals a listed entry or matches a listed pattern
listed(list, pth) ==
    \E i \in 1..Len(list) :
        entryEquals(list[i], pth) \/ entryGlobMatches(list[i], pth)

\* the path equals a listed literal entry
listedLiterally(list, pth) ==
    \E i \in 1..Len(list) : entryIsLiteral(list[i]) /\ entryEquals(list[i], pth)

\* the first glob entry of the list that is malformed or matches the path is
\* a malformed one
malformedComesFirst(list, pth) ==
    \E i \in 1..Len(list) :
        /\ entryIsMalformed(list[i])
        /\ \A j \in 1..(i - 1) : ~entryGlobMatches(list[j], pth)

\* some glob entry matches and no malformed one precedes it
globMatchComesFirst(list, pth) ==
    \E i \in 1..Len(list) :
        /\ entryGlobMatches(list[i], pth)
        /\ \A j \in 1..(i - 1) : ~entryIsMalformed(list[j])

\* the outcome of a path authorizer that answers onMatch and onNoMatch
pathOutcome(list, pth, out, onMatch, onNoMatch) ==
    IF listedLiterally(list, pth) THEN out.decision = onMatch /\ out.err = NoErr
    ELSE IF malformedComesFirst(list, pth)
    THEN out.decision = DecisionNoOpinion /\ out.err # NoErr
    ELSE IF globMatchComesFirst(list, pth)
    THEN out.decision = onMatch /\ out.err = NoErr
    ELSE out.decision = onNoMatch /\ out.err = NoErr

fieldMatches(ruleField, requestField, empty) ==
    ruleField = empty \/ ruleField = requestField

\* the rule matches the attribute set, field by field
ruleMatches(c, a) ==
    /\ fieldMatches(c.user.name, IF a.user = << >> THEN "" ELSE a.user[1].name, "")
    /\ \A f \in {"verb", "namespace", "apiGroup", "resource", "subresource", "name"} :
           fieldMatches(c[f], a[f], "")
    /\ fieldMatches(c.path, a.path, << >>)
    /\ c.resourceRequest = a.resourceRequest

ResourceFields ==
    {"namespace", "apiGroup", "apiVersion", "resource", "subresource", "name"}

\* the template field consists of text and the placeholder only
plainTemplate(t) == \A k \in 1..Len(t) : t[k] \notin {"{{", "{{.Nope}}"}

\* the text of the parts k.. of a template field, value put in place of the
\* placeholder
RECURSIVE substituted(_, _, _)
substituted(t, value, k) ==
    IF k > Len(t) THEN ""
    ELSE (IF t[k] = "{{.Value}}" THEN value ELSE t[k]) \o substituted(t, value, k + 1)

\* the set carries the user and the verb of the input as a resource request
carriesUserAndVerb(a, attr) ==
    a.user = attr.user /\ a.verb = attr.verb

\* C11: whenever RewritingAttributesGenerator.Generate returns, it returns
\* one attribute set per extracted parameter value, in extraction order; the
\* i-th set has the input's user and verb, resourceRequest = true, and in each
\* of the six resource fields the template with the i-th value in place of
\* the placeholder; with no value it returns no set.
C11_RewritingOneSetPerValue ==
    (unit.op = "RewritingAttributesGenerator.Generate" /\ ~unit.out.panic) =>
        /\ Len(unit.out.attrs) = Len(unit.params)
        /\ \A i \in 1..Len(unit.params) :
               /\ carriesUserAndVerb(unit.out.attrs[i], unit.attr)
               /\ unit.out.attrs[i].resourceRequest
               /\ \A f \in ResourceFields :
                      plainTemplate(unit.attributes[f]) =>
                          unit.out.attrs[i][f] =
                              substituted(unit.attributes[f], unit.params[i], 1)

\* C11 witness: three values, the first two different, rendered into a
\* template with a placeholder in every field
C11_Witness ==
    /\ unit.op = "RewritingAttributesGenerator.Generate"
    /\ unit.attributes = RA_prefixed
    /\ Len(unit.params) = 3
    /\ unit.params[1] # unit.params[2]
    /\ ~unit.out.panic
    /\ Len(unit.out.attrs) = 3
    /\ unit.out.attrs[2].namespace = "ns-" \o unit.params[2]

\* the text of the parts k.. of a template field as the configuration has it
RECURSIVE verbatim(_, _)
verbatim(t, k) == IF k > Len(t) THEN "" ELSE t[k] \o verbatim(t, k + 1)

\* C12: BoundAttributesGenerator.Generate returns exactly one attribute set,
\* with the input's user and verb, resourceRequest = true, no path, and the
\* six resource fields as the configured template has them, placeholders
\* included, whatever the request path and the rewrite parameters are.
C12_BoundOneSetVerbatim ==
    unit.op = "BoundAttributesGenerator.Generate" =>
        /\ ~unit.out.panic
        /\ Len(unit.out.attrs) = 1
        /\ carriesUserAndVerb(unit.out.attrs[1], unit.attr)
        /\ unit.out.attrs[1].resourceRequest
        /\ unit.out.attrs[1].path = << >>
        /\ \A f \in ResourceFields :
               unit.out.attrs[1][f] = verbatim(unit.attributes[f], 1)

\* C12 witness: a template with a placeholder and a context with two values;
\* the placeholder is in the set as it was written
C12_Witness ==
    /\ unit.op = "BoundAttributesGenerator.Generate"
    /\ unit.attributes = RA_template
    /\ Len(unit.params) = 2
    /\ Len(unit.out.attrs) = 1
    /\ unit.out.attrs[1].namespace = "{{.Value}}"
    /\ unit.out.attrs[1].resource = "pods"

\* C13: DefaultAttributesGenerator.Generate returns exactly one attribute
\* set, with the input's user, verb and path, resourceRequest = false and
\* every resource field empty, whatever the rewrite parameters are.
C13_DefaultOneSetWithPath ==
    unit.op = "DefaultAttributesGenerator.Generate" =>
        /\ ~unit.out.panic
        /\ Len(unit.out.attrs) = 1
        /\ carriesUserAndVerb(unit.out.attrs[1], unit.attr)
        /\ ~unit.out.attrs[1].resourceRequest
        /\ unit.out.attrs[1].path = unit.attr.path
        /\ \A f \in ResourceFields : unit.out.attrs[1][f] = ""

\* C13 witness: a request for "/a" by alice with rewrite parameters in its
\* context
C13_Witness ==
    /\ unit.op = "DefaultAttributesGenerator.Generate"
    /\ Len(unit.params) > 0
    /\ unit.attr.path = P_a
    /\ unit.attr.user = User("alice", <<"dev">>)
    /\ Len(unit.out.attrs) = 1
    /\ unit.out.attrs[1].path = P_a

(***************************************************************************)
(* Properties of the composition root and of the parameter extractor on    *)
(* their own.                                                              *)
(***************************************************************************)
\* the rewrites name a query parameter or a header
namesSource(rewrites) ==
    /\ rewrites # << >>
    /\ \/ rewrites[1].byQueryParameter # << >> /\ rewrites[1].byQueryParameter[1].name # ""
       \/ rewrites[1].byHTTPHeader # << >> /\ rewrites[1].byHTTPHeader[1].name # ""

\* the generator of the authorizer that SetupAuthorizer returned
chosenGenerator == unit.out.authorizer.attrGen.kind

\* C14 (as claimed): SetupAuthorizer picks Default without ResourceAttributes,
\* Bound with ResourceAttributes when the rewrites are absent or name neither
\* a query parameter nor a header, Rewriting only with ResourceAttributes and
\* a named source.
C14_GeneratorByNamedSource ==
    (unit.op = "SetupAuthorizer" /\ unit.out.ok) =>
        chosenGenerator =
            IF unit.config.resourceAttributes = << >> THEN "default"
            ELSE IF namesSource(unit.config.rewrites) THEN "rewriting"
            ELSE "bound"

\* C14 (amended): SetupAuthorizer picks Default without ResourceAttributes,
\* Bound with ResourceAttributes and no rewrites block, Rewriting with
\* ResourceAttributes and a rewrites block, whether or not the block names a
\* query parameter or a header; Bound and Rewriting are given the configured
\* ResourceAttributes.
C14_GeneratorByRewritesPresence ==
    (unit.op = "SetupAuthorizer" /\ unit.out.ok) =>
        /\ chosenGenerator =
               IF unit.config.resourceAttributes = << >> THEN "default"
               ELSE IF unit.config.rewrites # << >> THEN "rewriting"
               ELSE "bound"
        /\ chosenGenerator # "default" =>
               unit.out.authorizer.attrGen.attributes = unit.config.resourceAttributes[1]

\* C14 witness: ResourceAttributes and a rewrites block that names no source
\* give the Rewriting generator
C14_Witness ==
    /\ unit.op = "SetupAuthorizer"
    /\ unit.out.ok
    /\ unit.config.resourceAttributes # << >>
    /\ unit.config.rewrites # << >>
    /\ ~namesSource(unit.config.rewrites)
    /\ chosenGenerator = "rewriting"

\* the rewrites of the configuration requestToParams was given, if any
givenRewrites ==
    IF unit.config = << >> THEN << >> ELSE unit.config[1].rewrites

\* the values the request carries under the configured query parameter
valuesOfQueryParameter ==
    IF /\ givenRewrites # << >>
       /\ givenRewrites[1].byQueryParameter # << >>
       /\ givenRewrites[1].byQueryParameter[1].name = "namespace"
       /\ "namespace" \in DOMAIN unit.req.query
    THEN unit.req.query["namespace"] ELSE << >>

\* the values the request carries under the configured header
valuesOfHeader ==
    IF /\ givenRewrites # << >>
       /\ givenRewrites[1].byHTTPHeader # << >>
       /\ givenRewrites[1].byHTTPHeader[1].name = "x-namespace"
       /\ "X-Namespace" \in DOMAIN unit.req.header
    THEN unit.req.header["X-Namespace"] ELSE << >>

\* C15 (as claimed): requestToParams returns the values found at one
\* configured source, in the request's order, never the values of the query
\* parameter and of the header together; nothing when the configuration is
\* absent or names no source.
C15_ValuesOfOneSourceOnly ==
    unit.op = "requestToParams" =>
        /\ ~namesSource(givenRewrites) => unit.out = << >>
        /\ unit.out = valuesOfQueryParameter \/ unit.out = valuesOfHeader

\* C15 (amended): requestToParams returns the values of the configured query
\* parameter, in the request's order, followed by the values of the
\* configured header, in the request's order; a source that is not
\* configured, or has an empty name, contributes nothing, and so does an
\* absent configuration.
C15_QueryValuesThenHeaderValues ==
    unit.op = "requestToParams" =>
        /\ ~namesSource(givenRewrites) => unit.out = << >>
        /\ unit.out = valuesOfQueryParameter \o valuesOfHeader

\* C15 witness: both sources are configured and the request carries values at
\* both; the result holds the query values and then the header values
C15_Witness ==
    /\ unit.op = "requestToParams"
    /\ Len(valuesOfQueryParameter) = 2
    /\ Len(valuesOfHeader) = 2
    /\ unit.out = valuesOfQueryParameter \o valuesOfHeader
    /\ unit.out[1] # unit.out[2]

\* the template field has no action at all: it is text only
textOnly(t) == \A k \in 1..Len(t) : t[k] \notin {"{{", "{{.Nope}}", "{{.Value}}"}

\* C16: in the Rewriting generator a template field without a placeholder
\* renders unchanged and a field that fails to parse renders as the empty
\* string: with at least one parameter value the generator returns a set for
\* every value and the request does not panic because of the template.
C16_UnparsableFieldRendersEmpty ==
    (unit.op = "RewritingAttributesGenerator.Generate" /\ Len(unit.params) > 0) =>
        /\ ~unit.out.panic
        /\ Len(unit.out.attrs) = Len(unit.params)
        /\ \A i \in 1..Len(unit.out.attrs), f \in ResourceFields :
               /\ textOnly(unit.attributes[f]) =>
                      unit.out.attrs[i][f] = verbatim(unit.attributes[f], 1)
               /\ parseFails(unit.attributes[f]) => unit.out.attrs[i][f] = ""

(***************************************************************************)
(* Properties of the composed authorizer: errors and reasons.              *)
(***************************************************************************)
\* what the delegate answered in the i-th call of the wrapped authorizer, if
\* it was asked: the delegate is the last handler of the union
delegateAnswer(i) == calls[i].invoked[Len(calls[i].invoked)]

\* the delegate was asked in the i-th call and returned an error
delegateFailed(i) ==
    /\ delegateAnswer(i).kind = "delegate"
    /\ delegateAnswer(i).err # NoErr

\* the error e wraps the cause: the chain of e ends with the chain of the cause
wraps(e, cause) ==
    /\ Len(e) > Len(cause)
    /\ SubSeq(e, Len(e) - Len(cause) + 1, Len(e)) = cause

\* C17: when the delegate returns an error for a generated set, whatever its
\* decision, the request ends there with Deny and a non-nil error that wraps
\* the delegate's error; when the wrapped authorizer refuses a set without
\* any error, the request ends with Deny and a nil error.
C17_DelegateErrorIsNeverPlainDeny ==
    \A i \in 1..Len(calls) :
        /\ delegateFailed(i) =>
               /\ pc = "returned"
               /\ i = Len(calls)
               /\ result.decision = DecisionDeny
               /\ result.err # NoErr
               /\ wraps(result.err, delegateAnswer(i).err)
        /\ (calls[i].err = NoErr /\ calls[i].decision # DecisionAllow) =>
               /\ pc = "returned"
               /\ i = Len(calls)
               /\ result.decision = DecisionDeny
               /\ result.err = NoErr

\* C17 witness: the delegate answered Allow together with an error for the
\* second set, and the request was denied with an error that wraps it
C17_Witness ==
    /\ pc = "returned"
    /\ Len(calls) = 2
    /\ delegateFailed(2)
    /\ delegateAnswer(2).decision = DecisionAllow
    /\ result.decision = DecisionDeny
    /\ wraps(result.err, <<"backend failure">>)

\* the reason string has the text x among its parts
cites(reason, x) == \E k \in 1..Len(reason) : reason[k] = x

\* C18: when the request is denied because the wrapped authorizer did not
\* allow the generated set S, the reason names the user, the verb and the
\* resource coordinates of S that are set, the substituted value included.
C18_DenyReasonDescribesRefusedSet ==
    (/\ pc = "returned"
     /\ Len(calls) > 0
     /\ calls[Len(calls)].err = NoErr
     /\ calls[Len(calls)].decision # DecisionAllow) =>
        LET S == calls[Len(calls)].attr
        IN  /\ result.decision = DecisionDeny
            /\ cites(result.reason, S.user[1].name)
            /\ cites(result.reason, S.verb)
            /\ \A f \in ResourceFields :
                   S[f] # "" => cites(result.reason, S[f])

\* the Bound generator is in use and some static rule matches the one set it
\* generated for the request
boundSetMatchesStaticRule ==
    /\ pc = "returned"
    /\ authz.authorizer.attrGen.kind = "bound"
    /\ setup.config.static # << >>
    /\ \E k \in 1..Len(setup.config.static[1]) :
           ruleMatches(setup.config.static[1][k], attrs[1])

\* C19 (as claimed): with the Bound generator and a static rule that matches
\* the generated set, every request is allowed and the delegate is not asked.
C19_BoundStaticAlwaysAllows ==
    boundSetMatchesStaticRule =>
        /\ result.decision = DecisionAllow
        /\ ~delegateAsked

\* C19 (amended): with the Bound generator and a static rule that matches the
\* generated set the delegate is never asked; when no allow-list is
\* configured every request is allowed, for every user, verb and path.
C19_BoundStaticAllowsWithoutAllowList ==
    boundSetMatchesStaticRule =>
        /\ ~delegateAsked
        /\ setup.allowPaths = << >> =>
               /\ result.decision = DecisionAllow
               /\ result.err = NoErr

\* C19 witness: the rule {resource: prometheusrules, resourceRequest: true}
\* matched the set {apiGroup: monitoring.coreos.com, namespace: team-a,
\* resource: prometheusrules}; the static matcher's Allow ended the union
C19_Witness ==
    /\ boundSetMatchesStaticRule
    /\ setup.config.static[1] = <<R_resource>>
    /\ attrs[1].namespace = "team-a"
    /\ Len(calls) = 1
    /\ calls[1].invoked[Len(calls[1].invoked)].kind = "static"
    /\ result.decision = DecisionAllow

(***************************************************************************)
(* Properties of every generated attribute set.                            *)
(***************************************************************************)
\* a generator was applied on its own
generatorApplied ==
    unit.op \in {"DefaultAttributesGenerator.Generate",
                 "BoundAttributesGenerator.Generate",
                 "RewritingAttributesGenerator.Generate"}

\* no resource coordinate of the set is set
noCoordinates(a) == \A f \in ResourceFields : a[f] = ""

\* C20 (as claimed): every attribute set a generator emits is either a
\* resource request with some resource coordinate set and no path, or a
\* non-resource request with a path and no resource coordinate.
C20_ResourceWithCoordinatesOrPath ==
    generatorApplied =>
        \A i \in 1..Len(unit.out.attrs) :
            LET a == unit.out.attrs[i]
            IN  \/ a.resourceRequest /\ ~noCoordinates(a) /\ a.path = << >>
                \/ ~a.resourceRequest /\ a.path # << >> /\ noCoordinates(a)

\* C20 (amended): every attribute set a generator emits is either a resource
\* request with no path (Bound and Rewriting; its coordinates are what the
\* template gives, which may be nothing) or a non-resource request with the
\* path of the request and no resource coordinate (Default); no set has a
\* path together with resourceRequest = true.
C20_ResourceRequestOrPath ==
    generatorApplied =>
        \A i \in 1..Len(unit.out.attrs) :
            LET a == unit.out.attrs[i]
            IN  /\ a.resourceRequest <=>
                       unit.op # "DefaultAttributesGenerator.Generate"
                /\ a.resourceRequest => a.path = << >>
                /\ ~a.resourceRequest =>
                       noCoordinates(a) /\ a.path = unit.attr.path

\* C20 witness: the Rewriting generator emitted, for the empty value, a
\* resource request without a path and without any coordinate
C20_Witness ==
    /\ unit.op = "RewritingAttributesGenerator.Generate"
    /\ unit.attributes = RA_valueOnly
    /\ unit.attr.path = P_a
    /\ unit.params = <<"ns1", "">>
    /\ Len(unit.out.attrs) = 2
    /\ unit.out.attrs[2].resourceRequest
    /\ unit.out.attrs[2].path = << >>
    /\ noCoordinates(unit.out.attrs[2])
    /\ ~noCoordinates(unit.out.attrs[1])

(***************************************************************************)
(* Properties of the HTTP filters.                                         *)
(***************************************************************************)
\* WithAuthorization got past its user check for the request in flight
authorizationRan ==
    /\ http.at \in {"authorize", "WithAuthHeaders", "done"}
    /\ http.r.ctx.user # << >>

\* the answer lets the loop of the filter go on
allowsWithoutError(answer) ==
    answer.decision = DecisionAllow /\ answer.err = NoErr

\* the calls of the authorizer follow the list, one set after the other
evaluatedInOrder ==
    /\ Len(http.authzCalls) <= Len(http.allAttrs)
    /\ \A k \in 1..Len(http.authzCalls) :
          /\ http.authzCalls[k].attr = http.allAttrs[k]
          /\ k < Len(http.authzCalls) => allowsWithoutError(http.authzCalls[k].answer)

\* every set of the list was allowed without an error
everySetAllowed ==
    /\ Len(http.allAttrs) > 0
    /\ Len(http.authzCalls) = Len(http.allAttrs)
    /\ \A k \in 1..Len(http.authzCalls) : allowsWithoutError(http.authzCalls[k].answer)

\* the answer for the first set that was not allowed without an error
firstFailing == http.authzCalls[Len(http.authzCalls)].answer

\* C21: WithAuthorization invokes the protected handler if and only if the
\* attribute list of the request is non-empty and the authorizer answers Allow
\* without an error for every set, asked in list order; otherwise the handler
\* is not invoked and the status is 400 for an empty list, 500 when the first
\* failing set gave an error and 403 when it gave a decision other than Allow;
\* an always-deny authorizer gives 403 and an always-allow authorizer 200.
C21_HandlerIffEverySetAllowed ==
    /\ http.at # "idle" =>
          /\ Len(http.handlerCalls) <= 1
          /\ http.handlerCalls # << >> => everySetAllowed
    /\ authorizationRan =>
          /\ evaluatedInOrder
          /\ http.at = "done" =>
                /\ everySetAllowed <=> http.handlerCalls # << >>
                /\ everySetAllowed => http.status = 200
                /\ Len(http.allAttrs) = 0 =>
                      http.status = 400 /\ http.authzCalls = << >>
                /\ Len(http.allAttrs) > 0 /\ ~everySetAllowed =>
                      /\ http.authzCalls # << >>
                      /\ ~allowsWithoutError(firstFailing)
                      /\ firstFailing.err # NoErr => http.status = 500
                      /\ firstFailing.err = NoErr => http.status = 403
                /\ Len(http.allAttrs) > 0 /\ http.cfg.authorizer = "denier" =>
                      http.status = 403
                /\ Len(http.allAttrs) > 0 /\ http.cfg.authorizer = "approver" =>
                      http.status = 200

\* the second of two sets is refused after the first was allowed
C21_Witness ==
    /\ http.at = "done"
    /\ Len(http.allAttrs) = 2
    /\ Len(http.authzCalls) = 2
    /\ http.authzCalls[2].answer.decision = DecisionNoOpinion
    /\ http.status = 403
    /\ http.handlerCalls = << >>

\* the authenticator did not vouch for the request in flight
authenticationFailed ==
    http.at # "idle" /\ (http.authn.err # NoErr \/ ~http.authn.ok)

\* C22: in the chain WithAuthentication -> WithAuthorization -> handler a
\* request whose authentication fails (an error, or not ok) is answered with
\* 401 and neither the authorizer nor the handler is ever invoked for it; the
\* authorizer is consulted only after authentication succeeded and the
\* verified user was placed in the context of the request.
C22_NoAuthorizationWithoutAuthentication ==
    /\ authenticationFailed =>
          /\ http.at = "done"
          /\ http.status = 401
          /\ http.authzCalls = << >>
          /\ http.handlerCalls = << >>
          /\ http.r.ctx.user = << >>
    /\ http.at # "idle" /\ (http.authzCalls # << >> \/ http.handlerCalls # << >>) =>
          /\ http.authn.ok /\ http.authn.err = NoErr
          /\ http.authn.user # << >>
          /\ http.r.ctx.user = http.authn.user
          /\ \A k \in 1..Len(http.authzCalls) :
                /\ http.authzCalls[k].user = http.authn.user
                /\ http.authzCalls[k].attr.user = http.authn.user

\* the authenticator of the filter test refuses an invalid bearer token
C22_Witness ==
    /\ http.at = "done"
    /\ http.authn = AuthenticateResponse(<< >>, FALSE, NoErr)
    /\ http.cfg.authorizer = "approver"
    /\ http.status = 401

\* Header.Values: the values under the canonical form of the key
headerValues(h, key) == valuesAt(h, CanonicalMIMEHeaderKey(key))

\* the groups with the separator between them
joinedGroups(groups, sep) ==
    CASE Len(groups) = 0 -> ""
      [] Len(groups) = 1 -> groups[1]
      [] Len(groups) = 2 -> groups[1] \o sep \o groups[2]
      [] OTHER -> groups[1] \o sep \o groups[2] \o sep \o groups[3]

\* the keys of the two configured headers
identityKeys(cfg) ==
    {CanonicalMIMEHeaderKey(cfg.userFieldName),
     CanonicalMIMEHeaderKey(cfg.groupsFieldName)}

\* the two headers differ from the received ones in the identity headers only
onlyIdentityHeadersWritten(cfg, before, after) ==
    /\ DOMAIN after = DOMAIN before \cup identityKeys(cfg)
    /\ \A k \in DOMAIN before \ identityKeys(cfg) : after[k] = before[k]

\* C23: WithAuthHeaders, when enabled and a verified user is in the context,
\* sets the configured user header to the user's name and the configured
\* groups header to the user's groups joined by the configured separator
\* before the next handler runs, overwriting what the client supplied for
\* those headers; when disabled it leaves the request headers unchanged.
C23_IdentityHeadersOverwritten ==
    \A k \in 1..(IF http.at = "idle" THEN 0 ELSE Len(http.handlerCalls)) :
        LET cfg == http.cfg.header
            seen == http.handlerCalls[k]
        IN /\ cfg.enabled /\ seen.ctx.user # << >> =>
                 /\ headerValues(seen.header, cfg.userFieldName)
                        = <<seen.ctx.user[1].name>>
                 /\ headerValues(seen.header, cfg.groupsFieldName)
                        = <<joinedGroups(seen.ctx.user[1].groups, cfg.groupSeparator)>>
                 /\ onlyIdentityHeadersWritten(cfg, http.received.header, seen.header)
           /\ ~cfg.enabled => seen.header = http.received.header

\* the client sent identity headers of its own and the user has two groups
C23_Witness ==
    /\ http.at = "done"
    /\ http.handlerCalls # << >>
    /\ http.cfg.header = AuthnHeaderConfig(TRUE, "user", "groups", "|")
    /\ valuesAt(http.received.header, "User") = <<"admin">>
    /\ valuesAt(http.handlerCalls[1].header, "User") = <<"carol">>
    /\ valuesAt(http.handlerCalls[1].header, "Groups") = <<"dev|ops">>

\* a handler of the given kind was asked during the request
handlerAsked(kind) ==
    \E i \in 1..Len(calls) :
        \E j \in 1..Len(calls[i].invoked) : calls[i].invoked[j].kind = kind

\* C24 (as claimed): with a non-empty allow-list and the Default generator, a
\* request whose path matches no entry of the list is decided Deny whatever
\* the static rules and the delegate say, and neither the static matcher nor
\* the delegate is asked for it.
C24_AllowListIsNeverWidened ==
    (/\ pc = "returned"
     /\ Len(setup.allowPaths) > 0
     /\ authz.authorizer.attrGen.kind = "default"
     /\ ~listed(setup.allowPaths, req.attr.path)) =>
        /\ result.decision = DecisionDeny
        /\ ~handlerAsked("static")
        /\ ~handlerAsked("delegate")

\* the path list SetupAuthorizer was given, and the decisions of its matcher
configuredList ==
    IF Len(setup.allowPaths) > 0 THEN setup.allowPaths ELSE setup.ignorePaths
onListed == IF Len(setup.allowPaths) > 0 THEN DecisionNoOpinion ELSE DecisionAllow
onUnlisted == IF Len(setup.allowPaths) > 0 THEN DecisionDeny ELSE DecisionNoOpinion

\* the list has the root entry: "/" or the empty string
containsRoot(list) == \E i \in 1..Len(list) : list[i] \in {P_root, P_empty}

\* the generator leaves the path of the request out of the sets it builds
dropsPath == authz.authorizer.attrGen.kind \in {"bound", "rewriting"}

\* the path matcher and the static matcher answered for the generated set
answeredForGeneratedSet(c) ==
    \A j \in 1..Len(c.invoked) :
        /\ c.invoked[j].kind = "path" =>
              pathOutcome(configuredList, c.attr.path, c.invoked[j], onListed, onUnlisted)
        /\ c.invoked[j].kind = "static" =>
              (c.invoked[j].decision = DecisionAllow
                  <=> \E k \in 1..Len(setup.config.static[1]) :
                          ruleMatches(setup.config.static[1][k], c.attr))

VariantGroups == {<< >>, <<"dev">>, <<"ops">>, <<"ops", "dev">>}
VariantVersions == {"", "v1", "v2"}

\* the attribute set with other groups for its user and another apiVersion
variant(a, groups, version) ==
    [a EXCEPT !.apiVersion = version,
              !.user = IF a.user = << >> THEN << >>
                       ELSE <<[a.user[1] EXCEPT !.groups = groups]>>]

=============================================================================
